---- MODULE Spec2Model ----
(***************************************************************************)
(* A model of the NormalizedString of tokenizers/src/tokenizer/            *)
(* normalizer.rs: an original text, a normalized text and, for every       *)
(* character of the normalized text, the (start, end) character span of    *)
(* the original text it came from.                                         *)
(*                                                                         *)
(* Texts are sequences of characters.  Alignment values are the 0-based    *)
(* character offsets of the source; sequence positions are 1-based, so     *)
(* alignments[i] of the source is alignments[i + 1] here.                  *)
(*                                                                         *)
(* usize values are kept as integers; a negative integer -k stands for the *)
(* wrapped value 2^64 - k that arithmetic without overflow checks yields.  *)
(***************************************************************************)
EXTENDS Integers, Sequences, FiniteSets, TLC

VARIABLES
    ns,        \* the NormalizedString the operations are called on
    ret,       \* what the last call returned
    last,      \* the last call: its name, its argument and self before it
    calls,     \* the number of calls the program still makes
    panicked   \* a call panicked: the program has stopped

vars == <<ns, ret, last, calls, panicked>>

----------------------------------------------------------------------------
(* Bounds of the model *)

\* longest text given to from()
MaxLen == 2
\* longest normalized text a growing operation may produce
MaxNorm == 3
\* largest offset used in a range bound or as a split point
MaxOff == 3
\* number of calls made on one value
MaxSteps == 2

----------------------------------------------------------------------------
(* Characters *)

Space == " "
LowerS == "s"
UpperS == "S"
\* U+00DF, LATIN SMALL LETTER SHARP S: two bytes, uppercases to "SS"
Eszett == "sz"

Chars == {Space, LowerS, UpperS, Eszett}

\* char::len_utf8
LenUtf8(c) == IF c = Eszett THEN 2 ELSE 1

\* char::is_whitespace
IsWhitespace(c) == c = Space

\* char::to_uppercase: the sequence of characters c uppercases to
ToUppercase(c) ==
    IF c = LowerS THEN <<UpperS>>
    ELSE IF c = Eszett THEN <<UpperS, UpperS>>
    ELSE <<c>>

\* char::to_lowercase
ToLowercase(c) == IF c = UpperS THEN <<LowerS>> ELSE <<c>>

----------------------------------------------------------------------------
(* Helpers on sequences and options *)

None == [some |-> FALSE]
Some(v) == [some |-> TRUE, val |-> v]

Min(a, b) == IF a <= b THEN a ELSE b

\* the first n elements of s (all of s when it is shorter)
Take(s, n) == SubSeq(s, 1, Min(n, Len(s)))
\* s without its first n elements
Drop(s, n) == SubSeq(s, Min(n, Len(s)) + 1, Len(s))

\* unsigned comparison of usize values (negative integers are wrapped values)
ULe(a, b) == IF (a < 0) = (b < 0) THEN a <= b ELSE b < 0
ULt(a, b) == ULe(a, b) /\ a # b

\* str::chars().count()
CharCount(s) == Len(s)

RECURSIVE ByteLen(_)
\* str::len(): the length of s in bytes
ByteLen(s) == IF s = <<>> THEN 0 ELSE LenUtf8(Head(s)) + ByteLen(Tail(s))

\* the byte offset of the character at 0-based position i (str::char_indices)
ByteOffset(s, i) == ByteLen(Take(s, i))

\* &s[start_b..end_b]: the characters whose bytes lie in [start_b, end_b)
ByteSlice(s, start_b, end_b) ==
    LET keep == {i \in 1..Len(s) :
                    /\ ByteOffset(s, i - 1) >= start_b
                    /\ ByteOffset(s, i) <= end_b}
    IN  IF keep = {} THEN <<>>
        ELSE LET lo == CHOOSE i \in keep : \A j \in keep : i <= j
                 hi == CHOOSE i \in keep : \A j \in keep : j <= i
             IN  SubSeq(s, lo, hi)

----------------------------------------------------------------------------
(* Ranges *)

Unbounded == [kind |-> "Unbounded", i |-> 0]
Included(n) == [kind |-> "Included", i |-> n]
Excluded(n) == [kind |-> "Excluded", i |-> n]

\* Range::Original(lo, hi) and Range::Normalized(lo, hi)
OriginalRange(lo, hi) == [ref |-> "Original", lo |-> lo, hi |-> hi]
NormalizedRange(lo, hi) == [ref |-> "Normalized", lo |-> lo, hi |-> hi]

BoundStart(b) ==
    IF b.kind = "Unbounded" THEN 0
    ELSE IF b.kind = "Included" THEN b.i
    ELSE b.i + 1

BoundEnd(b, max_len) ==
    IF b.kind = "Unbounded" THEN max_len
    ELSE IF b.kind = "Included" THEN b.i + 1
    ELSE b.i

\* Range::into_full_range: the pair <<start, end>>
IntoFullRange(range, max_len) == <<BoundStart(range.lo), BoundEnd(range.hi, max_len)>>

\* get_range_of(s, range), the range given by its two bounds
GetRangeOf(s, lo, hi) ==
    LET len == CharCount(s)
        start == BoundStart(lo)
        end == BoundEnd(hi, len)
    IN  IF ~ULt(start, len) \/ ULt(len, end) \/ ~ULt(start, end) THEN None
        ELSE LET start_b == ByteOffset(s, start)
                 end_b == IF end < len THEN ByteOffset(s, end) ELSE ByteLen(s)
             IN  Some(ByteSlice(s, start_b, end_b))

\* <[T]>::get(start..end) on a sequence
SliceGet(seq, r) ==
    IF ULt(r[2], r[1]) \/ ULt(Len(seq), r[2]) THEN None
    ELSE Some(SubSeq(seq, r[1] + 1, r[2]))

----------------------------------------------------------------------------
(* NormalizedString *)

NormalizedString(original, normalized, alignments) ==
    [original |-> original, normalized |-> normalized, alignments |-> alignments]

\* NormalizedString::from
From(s) == NormalizedString(s, s, [v \in 1..CharCount(s) |-> <<v - 1, v>>])

\* NormalizedString::len
LenOf(n) == CharCount(n.normalized)

\* NormalizedString::len_original
LenOriginal(n) == CharCount(n.original)

\* alignments.last().map_or(0, |(_, e)| *e)
LastEnd(n) ==
    IF n.alignments = <<>> THEN 0 ELSE n.alignments[Len(n.alignments)][2]

----------------------------------------------------------------------------
(* transform *)

RECURSIVE SumChanges(_, _)
\* the sum of the changes of the first k elements of dest
SumChanges(dest, k) == IF k = 0 THEN 0 ELSE SumChanges(dest, k - 1) + dest[k][2]

\* idx for the element at 1-based position k: index - offset, with offset the
\* running sum that starts at -initial_offset; negative when the cast to usize wraps
TransformIdx(dest, initial_offset, k) ==
    (k - 1) - (SumChanges(dest, k - 1) - initial_offset)

\* the element at position k indexes outside the previous alignments
TransformOutOfBounds(n, dest, initial_offset, k) ==
    LET idx == TransformIdx(dest, initial_offset, k)
    IN  IF dest[k][2] > 0
        THEN ~(ULt(idx, 1)) /\ ~ULt(idx - 1, Len(n.alignments))
        ELSE ~ULt(idx, Len(n.alignments))

\* the align of a transform that gives every added character the entry (0, 0)
TransformAlignAdded(n, dest, initial_offset, k) ==
    LET idx == TransformIdx(dest, initial_offset, k)
    IN  IF dest[k][2] > 0 THEN <<0, 0>> ELSE n.alignments[idx + 1]

\* the align of the element at 1-based position k
TransformAlign(n, dest, initial_offset, k) ==
    LET idx == TransformIdx(dest, initial_offset, k)
    IN  IF dest[k][2] > 0
        THEN IF ULt(idx, 1) THEN <<0, 0>> ELSE n.alignments[idx]
        ELSE n.alignments[idx + 1]

\* NormalizedString::transform; panic: an index was out of bounds, self is untouched
Transform(n, dest, initial_offset) ==
    IF \E k \in 1..Len(dest) : TransformOutOfBounds(n, dest, initial_offset, k)
    THEN [panic |-> TRUE, ns |-> n]
    ELSE [panic |-> FALSE,
          ns |-> NormalizedString(
                    n.original,
                    [k \in 1..Len(dest) |-> dest[k][1]],
                    [k \in 1..Len(dest) |-> TransformAlign(n, dest, initial_offset, k)])]

----------------------------------------------------------------------------
(* Mutators *)

RECURSIVE FilterWalk(_, _, _, _)
\* the right-to-left walk of filter over the first i characters: the kept
\* (char, change) pairs in left-to-right order, and the final `removed`
FilterWalk(s, keep, i, removed) ==
    IF i = 0 THEN [stream |-> <<>>, removed |-> removed]
    ELSE IF s[i] \in keep
         THEN LET rest == FilterWalk(s, keep, i - 1, 0)
              IN  [stream |-> Append(rest.stream, <<s[i], -removed>>),
                   removed |-> rest.removed]
         ELSE FilterWalk(s, keep, i - 1, removed + 1)

\* filter that does not pass the characters dropped at the head to transform
FilterNoInitialOffset(n, keep) ==
    LET w == FilterWalk(n.normalized, keep, Len(n.normalized), 0)
    IN  Transform(n, w.stream, 0)

\* NormalizedString::filter, keep the set of characters the predicate accepts
Filter(n, keep) ==
    LET w == FilterWalk(n.normalized, keep, Len(n.normalized), 0)
    IN  Transform(n, w.stream, w.removed)

\* prepend that also inserts s into the original text
PrependOriginal(n, s) ==
    NormalizedString(s \o n.original, s \o n.normalized,
                     [i \in 1..Len(s) |-> <<0, 0>>] \o n.alignments)

\* NormalizedString::prepend
Prepend(n, s) ==
    NormalizedString(n.original, s \o n.normalized,
                     [i \in 1..Len(s) |-> <<0, 0>>] \o n.alignments)

\* append that gives the new characters the (0, 0) of prepend
AppendStrZero(n, s) ==
    NormalizedString(n.original, n.normalized \o s,
                     n.alignments \o [i \in 1..Len(s) |-> <<0, 0>>])

\* append that aligns the new characters to the end of the original text
AppendStrOriginalLen(n, s) ==
    NormalizedString(n.original, n.normalized \o s,
                     n.alignments \o
                        [i \in 1..Len(s) |-> <<CharCount(n.original), CharCount(n.original)>>])

\* NormalizedString::append
AppendStr(n, s) ==
    LET last_offset == <<LastEnd(n), LastEnd(n)>>
    IN  NormalizedString(n.original, n.normalized \o s,
                         n.alignments \o [i \in 1..Len(s) |-> last_offset])

\* NormalizedString::map, f a function on characters
Map(n, f) ==
    NormalizedString(n.original,
                     [i \in 1..Len(n.normalized) |-> f[n.normalized[i]]],
                     n.alignments)

RECURSIVE CaseStream(_, _, _)
\* the new_chars of lowercase and uppercase for the characters from position i on
CaseStream(s, conv, i) ==
    IF i > Len(s) THEN <<>>
    ELSE LET cs == conv[s[i]]
         IN  [j \in 1..Len(cs) |-> <<cs[j], IF j > 1 THEN 1 ELSE 0>>]
                \o CaseStream(s, conv, i + 1)

\* NormalizedString::lowercase
Lowercase(n) ==
    Transform(n, CaseStream(n.normalized, [c \in Chars |-> ToLowercase(c)], 1), 0)

\* NormalizedString::uppercase
Uppercase(n) ==
    Transform(n, CaseStream(n.normalized, [c \in Chars |-> ToUppercase(c)], 1), 0)

RECURSIVE LeadingSpaces(_)
LeadingSpaces(s) ==
    IF s # <<>> /\ IsWhitespace(Head(s)) THEN 1 + LeadingSpaces(Tail(s)) ELSE 0

RECURSIVE TrailingSpaces(_)
TrailingSpaces(s) ==
    IF s # <<>> /\ IsWhitespace(s[Len(s)])
    THEN 1 + TrailingSpaces(SubSeq(s, 1, Len(s) - 1))
    ELSE 0

\* the transformation stream of lrstrip
LrstripStream(n, leading_spaces, trailing_spaces) ==
    LET s == n.normalized
        kept == {i \in 0..(Len(s) - 1) :
                    ~(i < leading_spaces \/ i >= LenOf(n) - trailing_spaces)}
        elem(i) == IF i = LenOf(n) - trailing_spaces - 1
                   THEN <<s[i + 1], -trailing_spaces>>
                   ELSE <<s[i + 1], 0>>
    IN  [k \in 1..Cardinality(kept) |-> elem(leading_spaces + k - 1)]

\* lrstrip that does not pass the leading spaces to transform
LrstripNoInitialOffset(n, left, right) ==
    LET leading_spaces == IF left THEN LeadingSpaces(n.normalized) ELSE 0
        trailing_spaces == IF right THEN TrailingSpaces(n.normalized) ELSE 0
    IN  IF leading_spaces > 0 \/ trailing_spaces > 0
        THEN Transform(n, LrstripStream(n, leading_spaces, trailing_spaces), 0)
        ELSE [panic |-> FALSE, ns |-> n]

\* NormalizedString::lrstrip
Lrstrip(n, left, right) ==
    LET leading_spaces == IF left THEN LeadingSpaces(n.normalized) ELSE 0
        trailing_spaces == IF right THEN TrailingSpaces(n.normalized) ELSE 0
    IN  IF leading_spaces > 0 \/ trailing_spaces > 0
        THEN Transform(n, LrstripStream(n, leading_spaces, trailing_spaces),
                       leading_spaces)
        ELSE [panic |-> FALSE, ns |-> n]

----------------------------------------------------------------------------
(* Queries *)

\* the number of leading alignments the take_while of convert_offsets lets through
RECURSIVE TakeWhileEnd(_, _, _)
TakeWhileEnd(alignments, r_end, i) ==
    IF i <= Len(alignments) /\ ULe(alignments[i][2], r_end)
    THEN TakeWhileEnd(alignments, r_end, i + 1)
    ELSE i - 1

\* the Range::Original arm of convert_offsets
ConvertOriginal(n, range) ==
    LET r == IntoFullRange(range, LastEnd(n))
        taken == TakeWhileEnd(n.alignments, r[2], 1)
        starts == {i \in 1..taken : ULe(n.alignments[i][1], r[1])}
        ends == {i \in 1..taken : ULe(n.alignments[i][2], r[2])}
        start == IF starts = {} THEN 0
                 ELSE (CHOOSE i \in starts : \A j \in starts : j <= i) - 1
        end == IF ends = {} THEN 0
               ELSE CHOOSE i \in ends : \A j \in ends : j <= i
    IN  Some(<<start, end>>)

\* the Range::Normalized arm that ends the range with the first entry, not the last
ConvertNormalizedFirst(n, range) ==
    LET got == SliceGet(n.alignments, IntoFullRange(range, Len(n.alignments)))
    IN  IF ~got.some THEN None
        ELSE IF got.val = <<>> THEN None
        ELSE Some(<<got.val[1][1], got.val[1][2]>>)

\* the Range::Normalized arm of convert_offsets
ConvertNormalized(n, range) ==
    LET got == SliceGet(n.alignments, IntoFullRange(range, Len(n.alignments)))
    IN  IF ~got.some THEN None
        ELSE IF got.val = <<>> THEN None
        ELSE Some(<<got.val[1][1], got.val[Len(got.val)][2]>>)

\* NormalizedString::convert_offsets
ConvertOffsets(n, range) ==
    IF range.ref = "Original" THEN ConvertOriginal(n, range)
    ELSE ConvertNormalized(n, range)

\* NormalizedString::get_range
GetRange(n, range) ==
    IF range.ref = "Original"
    THEN LET r == ConvertOffsets(n, range)
         IN  IF r.some
             THEN GetRangeOf(n.normalized, Included(r.val[1]), Excluded(r.val[2]))
             ELSE None
    ELSE GetRangeOf(n.normalized, range.lo, range.hi)

\* NormalizedString::get_range_original
GetRangeOriginal(n, range) ==
    IF range.ref = "Original"
    THEN GetRangeOf(n.original, range.lo, range.hi)
    ELSE LET r == ConvertOffsets(n, range)
         IN  IF r.some
             THEN GetRangeOf(n.original, Included(r.val[1]), Excluded(r.val[2]))
             ELSE None

----------------------------------------------------------------------------
(* slice, slice_bytes, split_off, merge_with *)

\* a - b on usize leaves the range of usize
SubOverflows(a, b) == ULt(a, b)

\* a + b on usize leaves the range of usize
AddOverflows(a, b) ==
    \/ a < 0 /\ b < 0
    \/ a < 0 /\ b >= 0 /\ a + b >= 0
    \/ a >= 0 /\ b < 0 /\ a + b >= 0

\* the alignments of a slice: those in r_normalized, shifted by alignment_shift
SliceAlignments(alignments, alignment_shift) ==
    [i \in 1..Len(alignments) |->
        <<alignments[i][1] - alignment_shift, alignments[i][2] - alignment_shift>>]

\* NormalizedString::slice.  checks: the build has overflow checks (they panic);
\* without them the subtraction wraps.
Slice(n, range, checks) ==
    LET r_original == IF range.ref = "Original"
                      THEN Some(IntoFullRange(range, LenOriginal(n)))
                      ELSE ConvertOffsets(n, range)
        r_normalized == IF range.ref = "Original"
                        THEN ConvertOffsets(n, range)
                        ELSE Some(IntoFullRange(range, LenOf(n)))
    IN  IF ~r_original.some \/ ~r_normalized.some
        THEN [panic |-> FALSE, ret |-> None]
        ELSE
        LET alignment_shift == r_original.val[1]
            original == GetRangeOf(n.original, Included(r_original.val[1]),
                                   Excluded(r_original.val[2]))
            normalized == GetRangeOf(n.normalized, Included(r_normalized.val[1]),
                                     Excluded(r_normalized.val[2]))
            alignments == SliceGet(n.alignments, r_normalized.val)
        IN  IF ~original.some \/ ~normalized.some \/ ~alignments.some
            THEN [panic |-> FALSE, ret |-> None]
            ELSE IF checks /\ \E i \in 1..Len(alignments.val) :
                        \/ SubOverflows(alignments.val[i][1], alignment_shift)
                        \/ SubOverflows(alignments.val[i][2], alignment_shift)
            THEN [panic |-> TRUE, ret |-> None]
            ELSE [panic |-> FALSE,
                  ret |-> Some(NormalizedString(
                            original.val, normalized.val,
                            SliceAlignments(alignments.val, alignment_shift)))]

\* slice_bytes that takes the byte offsets of its range for character offsets
SliceBytesAsChars(n, range, checks) == Slice(n, range, checks)

\* NormalizedString::slice_bytes
SliceBytes(n, range, checks) ==
    LET s == IF range.ref = "Original" THEN n.original ELSE n.normalized
        r == IntoFullRange(range, ByteLen(s))
        seen == {i \in 0..(Len(s) - 1) :
                    ULt(ByteOffset(s, i), r[2]) /\ ULe(r[1], ByteOffset(s, i))}
        starts == {i \in seen : ByteOffset(s, i) = r[1]}
        ends == {i \in seen : ByteOffset(s, i) + LenUtf8(s[i + 1]) = r[2]}
    IN  IF starts = {} \/ ends = {} THEN [panic |-> FALSE, ret |-> None]
        ELSE LET start == CHOOSE i \in starts : TRUE
                 end == (CHOOSE i \in ends : TRUE) + 1
             IN  Slice(n, [ref |-> range.ref, lo |-> Included(start),
                           hi |-> Excluded(end)], checks)

RECURSIVE ByteIndexOfChars(_, _, _)
\* the fold of split_off counting one byte for every character
ByteIndexOfChars(s, at, i) ==
    IF i > Len(s) THEN 0
    ELSE (IF ULt(i - 1, at) THEN 1 ELSE 0) + ByteIndexOfChars(s, at, i + 1)

RECURSIVE ByteIndexOf(_, _, _)
\* the fold of split_off: the bytes of the characters of s, from position i on,
\* whose 0-based position is below at
ByteIndexOf(s, at, i) ==
    IF i > Len(s) THEN 0
    ELSE (IF ULt(i - 1, at) THEN LenUtf8(s[i]) ELSE 0) + ByteIndexOf(s, at, i + 1)

\* NormalizedString::split_off: self afterwards, and the value returned
SplitOff(n, at) ==
    IF at > LenOf(n) THEN [self |-> n, tail |-> From(<<>>)]
    ELSE
    LET byte_index == ByteIndexOf(n.normalized, at, 1)
        head_alignments == Take(n.alignments, at)
        original_at == IF head_alignments = <<>> THEN 0
                       ELSE head_alignments[Len(head_alignments)][2]
        original_byte_index == ByteIndexOf(n.original, original_at, 1)
    IN  [self |-> NormalizedString(
                    ByteSlice(n.original, 0, original_byte_index),
                    ByteSlice(n.normalized, 0, byte_index),
                    head_alignments),
         tail |-> NormalizedString(
                    ByteSlice(n.original, original_byte_index, ByteLen(n.original)),
                    ByteSlice(n.normalized, byte_index, ByteLen(n.normalized)),
                    Drop(n.alignments, at))]

\* NormalizedString::merge_with.  With overflow checks the subtraction len() - 1
\* and the additions panic when they leave usize, after original was extended;
\* without them they wrap.
MergeWith(n, o, checks) ==
    LET original == n.original \o o.original
        len == LenOf(n) - 1
        overflow ==
            \/ SubOverflows(LenOf(n), 1)
            \/ \E i \in 1..Len(o.alignments) :
                  \/ AddOverflows(o.alignments[i][1], len)
                  \/ AddOverflows(o.alignments[i][2], len)
    IN  IF checks /\ overflow
        THEN [panic |-> TRUE, ns |-> [n EXCEPT !.original = original]]
        ELSE [panic |-> FALSE,
              ns |-> NormalizedString(
                        original,
                        n.normalized \o o.normalized,
                        n.alignments \o
                            [i \in 1..Len(o.alignments) |->
                                <<o.alignments[i][1] + len, o.alignments[i][2] + len>>])]

----------------------------------------------------------------------------
(* The inputs of the operations *)

RECURSIVE SeqsUpTo(_, _)
\* the sequences over S of length at most n
SeqsUpTo(S, n) ==
    IF n = 0 THEN {<<>>}
    ELSE LET shorter == SeqsUpTo(S, n - 1)
         IN  shorter \cup {Append(s, c) : s \in shorter, c \in S}

\* the texts given to from()
Texts == SeqsUpTo({Space, LowerS, Eszett}, MaxLen)

\* the strings given to prepend and append
Insertions == {<<>>, <<Space>>, <<LowerS>>, <<LowerS, Space>>}

\* the predicates given to filter, each as the set of characters it keeps
KeepSets == SUBSET Chars

\* the functions given to map
MapFns ==
    {[c \in Chars |-> LowerS],
     [c \in Chars |-> IF c = Space THEN LowerS ELSE c],
     [c \in Chars |-> IF c = Eszett THEN Space ELSE c]}

\* the ranges given to the queries: a..b, a.. and .. in both referentials
Ranges ==
    {[ref |-> k, lo |-> b[1], hi |-> b[2]] :
        k \in {"Original", "Normalized"},
        b \in {<<Included(i), Excluded(j)>> : i, j \in 0..MaxOff}
              \cup {<<Included(i), Unbounded>> : i \in 0..MaxOff}
              \cup {<<Unbounded, Unbounded>>}}

\* the change streams given to transform: any stream of at most MaxLen elements
\* and the streams of an expansion (changes 0 and +1) of at most MaxNorm elements
Streams ==
    SeqsUpTo({<<LowerS, ch>> : ch \in -1..2}, MaxLen)
        \cup SeqsUpTo({<<LowerS, ch>> : ch \in 0..1}, MaxNorm)

\* what the mutators make of n: the results of the calls that go through
\* transform, with their panic flag, and those of the calls that do not
Mutations(n) ==
    {Filter(n, keep) : keep \in KeepSets}
        \cup {Lowercase(n), Uppercase(n)}
        \cup {Lrstrip(n, TRUE, FALSE), Lrstrip(n, FALSE, TRUE), Lrstrip(n, TRUE, TRUE)}
        \cup {[panic |-> FALSE, ns |-> v] :
                v \in {Map(n, f) : f \in MapFns}
                      \cup {Prepend(n, s) : s \in Insertions}
                      \cup {AppendStr(n, s) : s \in Insertions}
                      \cup {SplitOff(n, at).self : at \in 0..MaxOff}}

RECURSIVE Reachable(_)
\* the values from(text) becomes after at most k calls of the mutators and of
\* split_off, the normalized text no longer than MaxNorm
Reachable(k) ==
    IF k = 0 THEN {From(s) : s \in Texts}
    ELSE LET before == Reachable(k - 1)
         IN  before \cup
             {r.ns : r \in {m \in UNION {Mutations(n) : n \in before} :
                              ~m.panic /\ LenOf(m.ns) <= MaxNorm}}

\* the values given to merge_with
Others == {v \in Reachable(MaxSteps - 1) : LenOriginal(v) <= 1}

Call(op, arg) == [op |-> op, arg |-> arg, pre |-> ns]

\* no call has been recorded yet
NoCall == [op |-> "none", arg |-> <<>>, pre |-> From(<<>>)]

----------------------------------------------------------------------------
(* The operations *)

\* from(text), with MaxSteps calls to come
Init ==
    /\ \E s \in Texts : ns = From(s)
    /\ ret = None
    /\ last = NoCall
    /\ calls = MaxSteps
    /\ panicked = FALSE

\* a value MaxSteps - 1 calls have made of from(text), with one call to come
InitCall ==
    /\ ns \in Reachable(MaxSteps - 1)
    /\ ret = None
    /\ last = NoCall
    /\ calls = 1
    /\ panicked = FALSE

\* the program is running and has a call to make
Live == ~panicked /\ calls > 0

\* a call that changes self: r is the new self with the panic flag
Mutate(op, arg, r) ==
    /\ LenOf(r.ns) <= MaxNorm
    /\ ns' = r.ns
    /\ panicked' = r.panic
    /\ last' = Call(op, arg)
    /\ calls' = calls - 1
    /\ ret' = None

\* a call that only reads self: r is what it returns with the panic flag
Read(op, arg, r) ==
    /\ ret' = r.ret
    /\ panicked' = r.panic
    /\ last' = Call(op, arg)
    /\ calls' = calls - 1
    /\ UNCHANGED ns

DoFilter == Live /\ \E keep \in KeepSets : Mutate("filter", keep, Filter(ns, keep))

DoMap ==
    Live /\ \E f \in MapFns : Mutate("map", f, [panic |-> FALSE, ns |-> Map(ns, f)])

DoLowercase == Live /\ Mutate("lowercase", <<>>, Lowercase(ns))

DoUppercase == Live /\ Mutate("uppercase", <<>>, Uppercase(ns))

DoPrepend ==
    Live /\ \E s \in Insertions :
                Mutate("prepend", s, [panic |-> FALSE, ns |-> Prepend(ns, s)])

DoAppend ==
    Live /\ \E s \in Insertions :
                Mutate("append", s, [panic |-> FALSE, ns |-> AppendStr(ns, s)])

DoLstrip == Live /\ Mutate("lstrip", <<>>, Lrstrip(ns, TRUE, FALSE))

DoRstrip == Live /\ Mutate("rstrip", <<>>, Lrstrip(ns, FALSE, TRUE))

DoStrip == Live /\ Mutate("strip", <<>>, Lrstrip(ns, TRUE, TRUE))

DoSplitOff ==
    Live /\ \E at \in 0..MaxOff :
        LET r == SplitOff(ns, at)
        IN  /\ ns' = r.self
            /\ ret' = Some(r.tail)
            /\ last' = Call("split_off", at)
            /\ calls' = calls - 1
            /\ UNCHANGED panicked

\* transform is given any stream; its result may be of any length
DoTransform ==
    Live /\ \E dest \in Streams, initial_offset \in 0..1 :
        LET r == Transform(ns, dest, initial_offset)
        IN  /\ ns' = r.ns
            /\ panicked' = r.panic
            /\ last' = Call("transform", <<dest, initial_offset>>)
            /\ calls' = calls - 1
            /\ ret' = None

\* the build of the program has overflow checks or has none
Builds(panics) == IF panics THEN {TRUE, FALSE} ELSE {TRUE}

DoMergeWith ==
    Live /\ \E o \in Others :
        \E checks \in Builds(MergeWith(ns, o, TRUE).panic) :
            LET r == MergeWith(ns, o, checks)
            IN  /\ ns' = r.ns
                /\ panicked' = r.panic
                /\ last' = Call("merge_with", o)
                /\ calls' = calls - 1
                /\ ret' = None

DoConvertOffsets ==
    Live /\ \E range \in Ranges :
        Read("convert_offsets", range,
             [panic |-> FALSE, ret |-> ConvertOffsets(ns, range)])

DoGetRange ==
    Live /\ \E range \in Ranges :
        Read("get_range", range, [panic |-> FALSE, ret |-> GetRange(ns, range)])

DoGetRangeOriginal ==
    Live /\ \E range \in Ranges :
        Read("get_range_original", range,
             [panic |-> FALSE, ret |-> GetRangeOriginal(ns, range)])

DoSlice ==
    Live /\ \E range \in Ranges :
        \E checks \in Builds(Slice(ns, range, TRUE).panic) :
            Read("slice", range, Slice(ns, range, checks))

DoSliceBytes ==
    Live /\ \E range \in Ranges :
        \E checks \in Builds(SliceBytes(ns, range, TRUE).panic) :
            Read("slice_bytes", range, SliceBytes(ns, range, checks))

\* the mutators and split_off
NextMutate ==
    \/ DoFilter
    \/ DoMap
    \/ DoLowercase
    \/ DoUppercase
    \/ DoPrepend
    \/ DoAppend
    \/ DoLstrip
    \/ DoRstrip
    \/ DoStrip
    \/ DoSplitOff

\* every public operation
NextCall ==
    \/ NextMutate
    \/ DoTransform
    \/ DoMergeWith
    \/ DoConvertOffsets
    \/ DoGetRange
    \/ DoGetRangeOriginal
    \/ DoSlice
    \/ DoSliceBytes

Next == NextMutate

\* from(text) and MaxSteps calls of the mutators and split_off
Spec == Init /\ [][Next]_vars

\* MaxSteps - 1 calls of the mutators and split_off, then one call of any operation
SpecCall == InitCall /\ [][NextCall]_vars

----------------------------------------------------------------------------
(* The invariants of the data model *)

\* one alignment entry for every character of normalized
OnePerChar(n) == Len(n.alignments) = CharCount(n.normalized)

\* every entry (s, e) has 0 <= s <= e <= char_count(original)
EntriesInOriginal(n) ==
    \A i \in 1..Len(n.alignments) :
        /\ 0 <= n.alignments[i][1]
        /\ n.alignments[i][1] <= n.alignments[i][2]
        /\ n.alignments[i][2] <= CharCount(n.original)

\* starts and ends never decrease
Monotone(n) ==
    \A i, j \in 1..Len(n.alignments) :
        i < j => /\ n.alignments[i][1] <= n.alignments[j][1]
                 /\ n.alignments[i][2] <= n.alignments[j][2]

WellAligned(n) == OnePerChar(n) /\ EntriesInOriginal(n) /\ Monotone(n)

MutatorOps ==
    {"filter", "map", "lowercase", "uppercase", "prepend", "append",
     "lstrip", "rstrip", "strip"}

\* n has an entry (x, x)
HasZeroWidth(n) ==
    \E i \in 1..Len(n.alignments) : n.alignments[i][1] = n.alignments[i][2]

----------------------------------------------------------------------------
(* Claims *)

\* C1: after from(text) and any sequence of the mutators, no call has panicked,
\* there is one alignment entry per character of normalized, every entry (s, e)
\* has 0 <= s <= e <= char_count(original), and starts and ends never decrease.
C1_MutatorsKeepInvariants == ~panicked /\ WellAligned(ns)

\* a second mutator has removed characters from a value that holds an inserted one
C1_Witness ==
    /\ calls = 0
    /\ last.op \in {"filter", "lstrip", "rstrip", "strip"}
    /\ last.pre # From(last.pre.original)
    /\ Len(ns.normalized) < Len(last.pre.normalized)
    /\ HasZeroWidth(ns)
    /\ \E i \in 1..Len(ns.alignments) : ns.alignments[i][1] < ns.alignments[i][2]

\* the n entries (x, x)
ZeroWidth(n, x) == [i \in 1..n |-> <<x, x>>]

\* prepend(s) has put |s| entries (0, 0) before the entries of before, which are
\* kept as they were, and s before normalized
PrependDid(before, s, after) ==
    /\ after.normalized = s \o before.normalized
    /\ Len(after.alignments) = Len(s) + Len(before.alignments)
    /\ SubSeq(after.alignments, 1, Len(s)) = ZeroWidth(Len(s), 0)
    /\ SubSeq(after.alignments, Len(s) + 1, Len(after.alignments)) = before.alignments

\* append(s) has put |s| entries (t, t) after the entries of before, which are
\* kept as they were, and s after normalized
AppendDid(before, s, after, t) ==
    /\ after.normalized = before.normalized \o s
    /\ Len(after.alignments) = Len(before.alignments) + Len(s)
    /\ SubSeq(after.alignments, 1, Len(before.alignments)) = before.alignments
    /\ SubSeq(after.alignments, Len(before.alignments) + 1, Len(after.alignments))
            = ZeroWidth(Len(s), t)

\* C7 as claimed: prepend(s) adds |s| entries (0, 0) at the head and append(s)
\* adds |s| entries (t, t) at the tail with t = char_count(original); the entries
\* there were keep their values and order, and normalized becomes s ++ normalized,
\* respectively normalized ++ s.
C7_AsClaimed ==
    /\ last.op = "prepend" => PrependDid(last.pre, last.arg, ns)
    /\ last.op = "append" =>
            AppendDid(last.pre, last.arg, ns, CharCount(last.pre.original))

\* C7 amended: as claimed, but the t of append is the end of the last alignment
\* entry there was before the call, 0 when there was none.
C7_PrependAppend ==
    /\ last.op = "prepend" => PrependDid(last.pre, last.arg, ns)
    /\ last.op = "append" =>
            AppendDid(last.pre, last.arg, ns,
                      IF last.pre.alignments = <<>> THEN 0
                      ELSE last.pre.alignments[Len(last.pre.alignments)][2])

\* append has added characters to a value whose last entry ends before the end
\* of the original text
C7_Witness ==
    /\ last.op = "append"
    /\ last.arg # <<>>
    /\ last.pre.alignments # <<>>
    /\ last.pre.alignments[Len(last.pre.alignments)][2] < CharCount(last.pre.original)

ResolvedStart(range) == IF range.lo.kind = "Unbounded" THEN 0 ELSE range.lo.i
ResolvedEnd(range, len) == IF range.hi.kind = "Unbounded" THEN len ELSE range.hi.i

\* the resolved range is empty or reaches beyond the len characters of its view
Unmappable(range, len) ==
    \/ ResolvedStart(range) >= ResolvedEnd(range, len)
    \/ ResolvedEnd(range, len) > len

\* C2 as claimed: a.merge_with(b) completes and leaves a with one entry per
\* character of normalized, every entry (s, e) with
\* 0 <= s <= e <= char_count(a.original), and starts and ends that never decrease.
C2_AsClaimed == last.op = "merge_with" => ~panicked /\ WellAligned(ns)

\* C3 as claimed: from(a), after prepend(p) or as it is, merged with from(b) is
\* from(a ++ b) after the same prepend(p): original, normalized and alignments.
C3_AsClaimed ==
    last.op = "merge_with" =>
        \A p \in Insertions :
            (/\ last.pre = Prepend(From(last.pre.original), p)
             /\ last.arg = From(last.arg.original))
            => /\ ~panicked
               /\ ns = Prepend(From(last.pre.original \o last.arg.original), p)

\* C4 as claimed: every operation but split_off leaves the original text of
\* the receiver as it was.
C4_AsClaimed == last.op \notin {"none", "split_off"} => ns.original = last.pre.original

\* C4 amended: every operation but split_off and merge_with leaves the original
\* text of the receiver as it was; merge_with appends the original text of its
\* argument to it.
C4_OriginalKept ==
    /\ last.op \notin {"none", "split_off", "merge_with"}
            => ns.original = last.pre.original
    /\ last.op = "merge_with"
            => ns.original = last.pre.original \o last.arg.original

\* merge_with has been given a value with an original text, and a mutator that
\* rebuilds normalized has run on a value whose texts differ
C4_Witness ==
    /\ last.op = "merge_with"
    /\ last.arg.original # <<>>
    /\ last.pre.original # <<>>
    /\ last.pre.normalized # last.pre.original
    /\ last.pre.normalized # <<>>
    /\ ~panicked

\* C5 as claimed: convert_offsets returns nothing for a range that is empty
\* after resolution or out of the bounds of its view, the original text for an
\* Original range and the alignments for a Normalized one, and leaves self as
\* it was.
C5_AsClaimed ==
    last.op = "convert_offsets" =>
        /\ ns = last.pre
        /\ Unmappable(last.arg,
                      IF last.arg.ref = "Original" THEN CharCount(ns.original)
                      ELSE Len(ns.alignments))
                => ~ret.some

\* C6: convert_offsets of a Normalized range that resolves to [s, e) with
\* 0 <= s < e <= |alignments| returns alignments[s].start .. alignments[e-1].end;
\* of one that is empty or reaches beyond |alignments| it returns nothing.
C6_NormalizedToOriginal ==
    (last.op = "convert_offsets" /\ last.arg.ref = "Normalized") =>
        LET s == ResolvedStart(last.arg)
            e == ResolvedEnd(last.arg, Len(ns.alignments))
        IN  IF 0 <= s /\ s < e /\ e <= Len(ns.alignments)
            THEN ret = Some(<<ns.alignments[s + 1][1], ns.alignments[e][2]>>)
            ELSE ret = None

\* convert_offsets has mapped a range of several inserted characters, followed
\* by characters of the original text, to a range x..x
C6_Witness ==
    /\ last.op = "convert_offsets"
    /\ last.arg.ref = "Normalized"
    /\ ret.some
    /\ ret.val[1] = ret.val[2]
    /\ ResolvedEnd(last.arg, Len(ns.alignments)) - ResolvedStart(last.arg) > 1
    /\ \E i \in 1..Len(ns.alignments) : ns.alignments[i][1] < ns.alignments[i][2]

\* C8 as claimed: transform leaves what it leaves, and completes when it
\* completes, with every change above 1 replaced by 1.
C8_AsClaimed ==
    last.op = "transform" =>
        LET dest == last.arg[1]
            clamped == [k \in 1..Len(dest) |->
                            <<dest[k][1], IF dest[k][2] > 1 THEN 1 ELSE dest[k][2]>>]
            r == Transform(last.pre, clamped, last.arg[2])
        IN  panicked = r.panic /\ ns = r.ns

\* C9 as claimed: slice does not panic, and the value it returns has the
\* characters of original in ro, those of normalized in rn and the alignments
\* in rn less ro.start, every entry (s, e) with
\* 0 <= s <= e <= char_count(result.original); of ro and rn one is the range
\* given and the other is what convert_offsets makes of it.
C9_AsClaimed ==
    last.op = "slice" =>
        /\ ~panicked
        /\ ret.some =>
            LET range == last.arg
                conv == ConvertOffsets(ns, range).val
                given(len) == <<ResolvedStart(range), ResolvedEnd(range, len)>>
                ro == IF range.ref = "Original" THEN given(CharCount(ns.original))
                      ELSE conv
                rn == IF range.ref = "Original" THEN conv
                      ELSE given(CharCount(ns.normalized))
            IN  /\ ret.val.original = SubSeq(ns.original, ro[1] + 1, ro[2])
                /\ ret.val.normalized = SubSeq(ns.normalized, rn[1] + 1, rn[2])
                /\ ret.val.alignments =
                        [i \in 1..(rn[2] - rn[1]) |->
                            <<ns.alignments[rn[1] + i][1] - ro[1],
                              ns.alignments[rn[1] + i][2] - ro[1]>>]
                /\ EntriesInOriginal(ret.val)

\* the view a range is about: the original or the normalized text
ViewOf(n, range) == IF range.ref = "Original" THEN n.original ELSE n.normalized

\* the 0-based positions of the characters of s that start at byte b
CharsStartingAt(s, b) == {i \in 0..(Len(s) - 1) : ByteOffset(s, i) = b}

\* the 0-based positions of the characters of s whose last byte is byte b - 1
CharsEndingAt(s, b) == {i \in 0..(Len(s) - 1) : ByteOffset(s, i + 1) = b}

\* C11: slice_bytes(range) returns a value only when the byte start of the range
\* is where a character of the view starts and its byte end is where a character
\* of the view ends, the start before the end; it is then slice over the
\* characters from the one to the other in the same referential; in every other
\* case (an offset inside a character, an empty range, an end past the text) it
\* completes and returns nothing.
C11_SliceBytes ==
    last.op = "slice_bytes" =>
        LET s == ViewOf(ns, last.arg)
            bs == ResolvedStart(last.arg)
            be == ResolvedEnd(last.arg, ByteLen(s))
            from == CharsStartingAt(s, bs)
            to == CharsEndingAt(s, be)
        IN  IF bs < be /\ from # {} /\ to # {}
            THEN \E i \in from, j \in to, checks \in BOOLEAN :
                    LET r == Slice(ns, [ref |-> last.arg.ref, lo |-> Included(i),
                                        hi |-> Excluded(j + 1)], checks)
                    IN  ret = r.ret /\ panicked = r.panic
            ELSE ret = None /\ ~panicked

\* slice_bytes has returned the part of a text that follows a two-byte character
C11_Witness ==
    /\ last.op = "slice_bytes"
    /\ ret.some
    /\ ret.val.normalized # <<>>
    /\ ResolvedStart(last.arg) > 0
    /\ CharsStartingAt(ViewOf(ns, last.arg), ResolvedStart(last.arg))
            # {ResolvedStart(last.arg)}

\* the positions of the characters of s that are in keep, in order
KeptPositions(s, keep) ==
    SelectSeq([i \in 1..Len(s) |-> i], LAMBDA i : s[i] \in keep)

\* C12: filter(keep) completes and leaves normalized with its previous characters
\* for which keep is true and alignments with the previous entries at those
\* positions, in order, whichever characters are dropped: at the head, at the
\* tail, in runs, none or all.
C12_FilterKeepsEntries ==
    last.op = "filter" =>
        LET kept == KeptPositions(last.pre.normalized, last.arg)
        IN  /\ ~panicked
            /\ ns.original = last.pre.original
            /\ ns.normalized = [k \in 1..Len(kept) |-> last.pre.normalized[kept[k]]]
            /\ ns.alignments = [k \in 1..Len(kept) |-> last.pre.alignments[kept[k]]]

\* filter has dropped the first and the last character of a value of three
\* characters with different entries and kept the one between them
C12_Witness ==
    /\ last.op = "filter"
    /\ Len(last.pre.normalized) = 3
    /\ KeptPositions(last.pre.normalized, last.arg) = <<2>>
    /\ last.pre.alignments[1] # last.pre.alignments[2]
    /\ last.pre.alignments[2] # last.pre.alignments[3]

\* the number of elements with change 0 among the first k of dest
RECURSIVE ZerosUpTo(_, _)
ZerosUpTo(dest, k) ==
    IF k = 0 THEN 0
    ELSE ZerosUpTo(dest, k - 1) + (IF dest[k][2] = 0 THEN 1 ELSE 0)

\* dest is the stream of a 1-to-N expansion of the characters of n: every
\* character yields one element with change 0, then elements with change +1
IsExpansionOf(dest, n) ==
    /\ \A k \in 1..Len(dest) : dest[k][2] \in {0, 1}
    /\ dest # <<>> => dest[1][2] = 0
    /\ ZerosUpTo(dest, Len(dest)) = Len(n.alignments)

\* the entries of al from position j on, entry i repeated Len(conv[s[i]]) times
RECURSIVE Repeated(_, _, _, _)
Repeated(s, al, conv, j) ==
    IF j > Len(s) THEN <<>>
    ELSE [i \in 1..Len(conv[s[j]]) |-> al[j]] \o Repeated(s, al, conv, j + 1)

\* C13: transform of the stream of a 1-to-N expansion, where character j yields
\* n_j >= 1 elements, the first with change 0 and the others with change +1,
\* completes and gives each of the n_j characters the previous entry of
\* character j; lowercase and uppercase repeat the entry of every character as
\* many times as the character has characters in the other case.
C13_ExpansionRepeatsEntry ==
    /\ (last.op = "transform" /\ last.arg[2] = 0
            /\ IsExpansionOf(last.arg[1], last.pre)) =>
            /\ ~panicked
            /\ ns.alignments =
                    [k \in 1..Len(last.arg[1]) |->
                        last.pre.alignments[ZerosUpTo(last.arg[1], k)]]
    /\ last.op = "uppercase" =>
            /\ ~panicked
            /\ ns.alignments =
                    Repeated(last.pre.normalized, last.pre.alignments,
                             [c \in Chars |-> ToUppercase(c)], 1)
    /\ last.op = "lowercase" =>
            /\ ~panicked
            /\ ns.alignments =
                    Repeated(last.pre.normalized, last.pre.alignments,
                             [c \in Chars |-> ToLowercase(c)], 1)

\* transform has made one character of the first and two of the last character
\* of a value whose two characters have different entries
C13_Witness ==
    /\ last.op = "transform"
    /\ last.arg[2] = 0
    /\ Len(last.arg[1]) = 3
    /\ [k \in 1..3 |-> last.arg[1][k][2]] = <<0, 0, 1>>
    /\ Len(last.pre.alignments) = 2
    /\ last.pre.alignments[1] # last.pre.alignments[2]
    /\ last.pre.alignments[2] # <<0, 0>>
    /\ ~panicked

\* the number of whitespace characters s starts with
WhitespaceAtHead(s) ==
    CHOOSE k \in 0..Len(s) :
        /\ \A i \in 1..k : IsWhitespace(s[i])
        /\ k < Len(s) => ~IsWhitespace(s[k + 1])

\* the number of whitespace characters s ends with
WhitespaceAtTail(s) ==
    CHOOSE k \in 0..Len(s) :
        /\ \A i \in (Len(s) - k + 1)..Len(s) : IsWhitespace(s[i])
        /\ k < Len(s) => ~IsWhitespace(s[Len(s) - k])

\* the elements of seq at the 0-based positions [lo, hi), none when hi <= lo
Between(seq, lo, hi) == IF hi <= lo THEN <<>> ELSE SubSeq(seq, lo + 1, hi)

\* C14: with L the leading whitespace of normalized (0 for rstrip) and R the
\* trailing one (0 for lstrip), lstrip, rstrip and strip complete and leave
\* normalized and alignments with what they had at the positions [L, len - R);
\* the value is unchanged when L and R are zero, and empty when the text is all
\* whitespace.
C14_StripKeepsMiddle ==
    last.op \in {"lstrip", "rstrip", "strip"} =>
        LET s == last.pre.normalized
            L == IF last.op = "rstrip" THEN 0 ELSE WhitespaceAtHead(s)
            R == IF last.op = "lstrip" THEN 0 ELSE WhitespaceAtTail(s)
        IN  /\ ~panicked
            /\ ns.original = last.pre.original
            /\ ns.normalized = Between(s, L, Len(s) - R)
            /\ ns.alignments = Between(last.pre.alignments, L, Len(s) - R)
            /\ (L = 0 /\ R = 0) => ns = last.pre
            /\ (\A i \in 1..Len(s) : IsWhitespace(s[i])) =>
                    ns.normalized = <<>> /\ ns.alignments = <<>>

\* strip has removed whitespace from both ends of a value and left a character
\* whose entry is not that of the character before it
C14_Witness ==
    /\ last.op = "strip"
    /\ Len(last.pre.normalized) = 3
    /\ Len(ns.normalized) = 1
    /\ ns.alignments[1] = last.pre.alignments[2]
    /\ last.pre.alignments[1] # last.pre.alignments[2]

\* the 0-based normalized indices of n whose entry (s, e) is not empty and lies
\* inside the original range [os, oe)
InsideQuery(n, os, oe) ==
    {i \in 0..(Len(n.alignments) - 1) :
        /\ n.alignments[i + 1][1] < n.alignments[i + 1][2]
        /\ os <= n.alignments[i + 1][1]
        /\ n.alignments[i + 1][2] <= oe}

\* the range is an Original one that resolves to a non-empty range inside the
\* original text of n
OriginalQuery(n, range) ==
    /\ range.ref = "Original"
    /\ ResolvedStart(range) < ResolvedEnd(range, CharCount(n.original))
    /\ ResolvedEnd(range, CharCount(n.original)) <= CharCount(n.original)

\* C15 as claimed: the normalized range convert_offsets returns for a non-empty
\* original range [os, oe) inside the original text contains every normalized
\* index whose entry is not empty and lies inside [os, oe), the several
\* characters one original character was expanded to included, and the slice
\* by that original range keeps all of them.
C15_AsClaimed ==
    LET os == ResolvedStart(last.arg)
        oe == ResolvedEnd(last.arg, CharCount(ns.original))
    IN  /\ (last.op = "convert_offsets" /\ OriginalQuery(ns, last.arg)) =>
                /\ ret.some
                /\ \A i \in InsideQuery(ns, os, oe) :
                        ret.val[1] <= i /\ i < ret.val[2]
        /\ (last.op = "slice" /\ OriginalQuery(ns, last.arg) /\ ret.some) =>
                Len(ret.val.normalized) >= Cardinality(InsideQuery(ns, os, oe))

====
